---- MODULE Spec2Model ----
(***************************************************************************)
(* FaceWidgets (src/components/widgets/FaceWidgets.tsx): the websocket     *)
(* session, the reconnect logic and the capture loop of one component      *)
(* instance, together with the in-place sort TopEmotions performs on the   *)
(* emotion list it is given.                                               *)
(*                                                                         *)
(* Strings are sequences of chunks in which every "." is a chunk of its    *)
(* own, so that String.replace(".", "") can be computed.  A null ref is 0; *)
(* sockets and recorders are numbered in order of construction.            *)
(***************************************************************************)
EXTENDS Integers, Sequences, FiniteSets, TLC

\* ---- bounds of the model ----
MaxSockets == 4
MaxUiSockets == 2
MaxRetrySockets == 5
MaxLoopSockets == 1

\* ---- program constants ----
maxReconnects == 3

Environments == {"prod", "dev"}

VARIABLES
  socketRef, recorderRef, mountRef, recorderCreated, numReconnects,
  trackedFaces, emotions, status,
  sockets, recorders, photoTasks,
  lifecycle, strictMode, environment, onCalibrate,
  stopped, lastOk, lastNonEmpty, errorEvents

vars == << socketRef, recorderRef, mountRef, recorderCreated, numReconnects,
           trackedFaces, emotions, status, sockets, recorders, photoTasks,
           lifecycle, strictMode, environment, onCalibrate,
           stopped, lastOk, lastNonEmpty, errorEvents >>

\* ---- status strings ----
StatusEmpty == << >>
StatusConnectingServer == << "Connecting to server", ".", ".", "." >>
StatusConnectingWebcam == << "Connecting to webcam", ".", ".", "." >>
StatusReconnecting == << "Reconnecting" >>

StatusFailed(env) ==
  << "Failed to connect to the Hume API (" \o env \o ")", ".",
     " Please log out and verify that your API key is correct", "." >>

\* ---- server messages ----
EmotionsA == << [name |-> "Calmness", score |-> 2],
                [name |-> "Anxiety", score |-> 5],
                [name |-> "Boredom", score |-> 2] >>
EmotionsB == << [name |-> "Sadness", score |-> 7],
                [name |-> "Contempt", score |-> 1] >>
PredA == [bbox |-> "boxA", emotions |-> EmotionsA]
PredB == [bbox |-> "boxB", emotions |-> EmotionsB]

WarningNoFaces == << "No faces detected", "." >>
WarningTooSmall == << "Face too small", ".", " Move closer", "." >>
ErrorInvalidKey == << "invalid api key" >>

\* error = << >> stands for an absent (or empty, falsy) error field; hasFace
\* tells whether the payload has a face object at all.
Messages ==
  << [error |-> << >>, hasFace |-> TRUE, predictions |-> << PredA >>, warning |-> << >>],
     [error |-> << >>, hasFace |-> TRUE, predictions |-> << PredB, PredA >>, warning |-> << >>],
     [error |-> << >>, hasFace |-> TRUE, predictions |-> << >>, warning |-> WarningNoFaces],
     [error |-> << >>, hasFace |-> FALSE, predictions |-> << >>, warning |-> << >>],
     [error |-> ErrorInvalidKey, hasFace |-> TRUE, predictions |-> << PredB >>, warning |-> << >>],
     [error |-> << >>, hasFace |-> TRUE, predictions |-> << >>, warning |-> WarningTooSmall] >>

NoMessage == 0

\* Indices of Messages: a prediction and an error
SessionMessages == {1, 5}

\* ---- websocket and recorder objects ----
NewSocket == [readyState |-> "CONNECTING", failed |-> FALSE, closeDue |-> FALSE,
              encoding |-> 0, inflight |-> 0]

Live(sock) == sock.readyState \in {"CONNECTING", "OPEN"}

\* WebSocket.close(): no effect on a CLOSING or CLOSED socket; a socket closed
\* before the connection is established fails (error event, then close event).
SocketCloseCall(sock) ==
  IF sock.readyState = "CONNECTING"
    THEN [sock EXCEPT !.readyState = "CLOSING", !.failed = TRUE]
  ELSE IF sock.readyState = "OPEN"
    THEN [sock EXCEPT !.readyState = "CLOSING", !.inflight = 0]
  ELSE sock

\* ---- the component's refs and state, as one record ----
\* (stopped records that stopEverything has run: its "Stopping everything..." log)
Cur == [stopped |-> stopped,
        socketRef |-> socketRef, recorderRef |-> recorderRef, mountRef |-> mountRef,
        recorderCreated |-> recorderCreated, numReconnects |-> numReconnects,
        trackedFaces |-> trackedFaces, emotions |-> emotions, status |-> status,
        sockets |-> sockets, recorders |-> recorders, photoTasks |-> photoTasks]

\* ---- TopEmotions: emotions.sort((a, b) => b.score - a.score), in place ----
RECURSIVE InsertByScore(_, _)
InsertByScore(sorted, e) ==
  IF sorted = << >> THEN << e >>
  ELSE IF Head(sorted).score >= e.score
    THEN << Head(sorted) >> \o InsertByScore(Tail(sorted), e)
  ELSE << e >> \o sorted

RECURSIVE SortByScore(_)
SortByScore(list) ==
  IF list = << >> THEN << >>
  ELSE InsertByScore(SortByScore(SubSeq(list, 1, Len(list) - 1)), list[Len(list)])

\* What TopEmotions leaves in the array it was given.
TopEmotions(list) == SortByScore(list)

\* The FaceWidgets render: TopEmotions is rendered only without onCalibrate.
render(c) ==
  IF onCalibrate THEN c ELSE [c EXCEPT !.emotions = TopEmotions(c.emotions)]

\* ---- FaceWidgets functions ----
SocketExists(c) == c.socketRef # 0

SocketIsOpen(c) ==
  c.socketRef # 0 /\ c.sockets[c.socketRef].readyState = "OPEN"

connect(c) ==
  IF SocketIsOpen(c) THEN c
  ELSE [c EXCEPT !.status = StatusConnectingServer,
                 !.sockets = Append(c.sockets, NewSocket),
                 !.socketRef = Len(c.sockets) + 1]

stopEverythingMounted(c) ==
  LET c1 == [c EXCEPT !.stopped = TRUE]
      c2 == IF c1.socketRef # 0
              THEN [c1 EXCEPT !.sockets[c1.socketRef] = SocketCloseCall(@),
                              !.socketRef = 0]
              ELSE c1
  IN IF c2.recorderRef # 0
       THEN [c2 EXCEPT !.recorders[c2.recorderRef] = "STOPPED", !.recorderRef = 0]
       ELSE c2

stopEverything(c) ==
  LET c1 == [c EXCEPT !.mountRef = FALSE, !.stopped = TRUE]
      c2 == IF c1.socketRef # 0
              THEN [c1 EXCEPT !.sockets[c1.socketRef] = SocketCloseCall(@),
                              !.socketRef = 0]
              ELSE c1
  IN IF c2.recorderRef # 0
       THEN [c2 EXCEPT !.recorders[c2.recorderRef] = "STOPPED", !.recorderRef = 0]
       ELSE c2

\* capturePhoto up to its await of recorder.takePhoto()
capturePhoto(c) ==
  IF c.recorderRef = 0 THEN c
  ELSE [c EXCEPT !.photoTasks = @ + 1]

\* sendRequest up to its await of blobToBase64(): the socket is read here
sendRequest(c) ==
  IF c.socketRef = 0 THEN c
  ELSE [c EXCEPT !.sockets[c.socketRef].encoding = @ + 1]

sendEncodedAnyState(c, s) ==
  [c EXCEPT !.sockets[s].encoding = @ - 1, !.sockets[s].inflight = @ + 1]

\* sendRequest after blobToBase64(), holding socket s
sendEncoded(c, s) ==
  IF c.sockets[s].readyState = "OPEN"
    THEN [c EXCEPT !.sockets[s].encoding = @ - 1, !.sockets[s].inflight = @ + 1]
    ELSE [c EXCEPT !.sockets[s] = SocketCloseCall([@ EXCEPT !.encoding = @ - 1])]

socketOnOpenReset(c) ==
  capturePhoto([c EXCEPT !.status = StatusConnectingWebcam, !.numReconnects = 0])

socketOnOpen(c) ==
  capturePhoto([c EXCEPT !.status = StatusConnectingWebcam])

Predictions(m) == IF m.hasFace THEN m.predictions ELSE << >>
Warning(m) == IF m.hasFace THEN m.warning ELSE << >>

\* String.replace(".", ""): removes the first "." only
RECURSIVE ReplaceEveryDot(_)
ReplaceEveryDot(str) ==
  IF str = << >> THEN << >>
  ELSE IF Head(str) = "." THEN ReplaceEveryDot(Tail(str))
  ELSE << Head(str) >> \o ReplaceEveryDot(Tail(str))

RECURSIVE ReplaceFirstDot(_)
ReplaceFirstDot(str) ==
  IF str = << >> THEN << >>
  ELSE IF Head(str) = "." THEN Tail(str)
  ELSE << Head(str) >> \o ReplaceFirstDot(Tail(str))

BoundingBoxesPrimary(predictions) ==
  [i \in 1..(IF Len(predictions) = 0 THEN 0 ELSE 1) |->
     [boundingBox |-> predictions[i].bbox]]

BoundingBoxes(predictions) ==
  [i \in 1..Len(predictions) |-> [boundingBox |-> predictions[i].bbox]]

\* if (error): an absent or empty error field is falsy
hasErrorFaceless(m) == m.error # << >> /\ ~m.hasFace

hasError(m) == m.error # << >>

\* The emotion list after a message without error: cleared on no predictions,
\* else the emotions of the prediction at index 0
nextEmotionsKept(old, predictions) ==
  IF Len(predictions) = 0 THEN old ELSE predictions[1].emotions

nextEmotions(old, predictions) ==
  IF Len(predictions) = 0 THEN << >> ELSE predictions[1].emotions

socketOnMessageFaceOnly(c, m) ==
  LET predictions == Predictions(m)
      c1 == [c EXCEPT !.status = StatusEmpty]
  IN IF hasError(m)
       THEN stopEverything([c1 EXCEPT !.status = m.error])
       ELSE IF Len(predictions) = 0
              THEN [c1 EXCEPT !.status = ReplaceFirstDot(Warning(m)),
                              !.emotions = nextEmotions(@, predictions),
                              !.trackedFaces = BoundingBoxes(predictions)]
              ELSE capturePhoto([c1 EXCEPT !.emotions = nextEmotions(@, predictions),
                                           !.trackedFaces = BoundingBoxes(predictions)])

socketOnMessage(c, m) ==
  LET predictions == Predictions(m)
      c1 == [c EXCEPT !.status = StatusEmpty]
  IN IF hasError(m)
       THEN stopEverything([c1 EXCEPT !.status = m.error])
       ELSE LET c2 == IF Len(predictions) = 0
                        THEN [c1 EXCEPT !.status = ReplaceFirstDot(Warning(m)),
                                        !.emotions = nextEmotions(@, predictions)]
                        ELSE [c1 EXCEPT !.emotions = nextEmotions(@, predictions)]
                c3 == [c2 EXCEPT !.trackedFaces = BoundingBoxes(predictions)]
            IN capturePhoto(c3)

socketOnClose(c) ==
  IF c.mountRef THEN connect([c EXCEPT !.status = StatusReconnecting])
  ELSE c

CeilingExceeded(n) == n > maxReconnects

CeilingReached(n) == n >= maxReconnects

socketOnError(c) ==
  IF CeilingReached(c.numReconnects)
    THEN stopEverything([c EXCEPT !.status = StatusFailed(environment)])
    ELSE [c EXCEPT !.numReconnects = @ + 1]

recorderMissing(c) == c.recorderRef = 0

\* onVideoReady's guard: no recorder yet and none being created
shouldCreateRecorder(c) == c.recorderRef = 0 /\ ~c.recorderCreated

recorderReadySilent(c, r) ==
  [c EXCEPT !.recorders[r] = "RUNNING", !.recorderRef = r]

\* onVideoReady after VideoRecorder.create() has resolved with recorder r
recorderReady(c, r) ==
  LET c1 == [c EXCEPT !.recorders[r] = "RUNNING", !.recorderRef = r]
  IN IF SocketIsOpen(c1) THEN capturePhoto(c1) ELSE c1

\* ---- transitions ----
\* What a handler leaves behind.  While the component is mounted its set-state
\* calls take effect and the component is rendered again; once it is
\* unmounted React drops them and renders nothing, so the status, the emotion
\* list and the tracked faces stay as they were (refs and objects still change).
Commit(c) ==
  LET n == IF lifecycle = "unmounted"
             THEN [c EXCEPT !.status = status, !.emotions = emotions,
                            !.trackedFaces = trackedFaces]
             ELSE render(c)
  IN /\ socketRef' = n.socketRef
     /\ recorderRef' = n.recorderRef
     /\ mountRef' = n.mountRef
     /\ recorderCreated' = n.recorderCreated
     /\ numReconnects' = n.numReconnects
     /\ trackedFaces' = n.trackedFaces
     /\ emotions' = n.emotions
     /\ status' = n.status
     /\ sockets' = n.sockets
     /\ recorders' = n.recorders
     /\ photoTasks' = n.photoTasks
     /\ stopped' = n.stopped

Config == UNCHANGED << strictMode, environment, onCalibrate >>

\* The event loop runs once the commit that mounts the component is over.
Running == lifecycle \in {"mounted", "unmounted"}

Start ==
  /\ socketRef = 0 /\ recorderRef = 0 /\ mountRef = TRUE
  /\ recorderCreated = FALSE /\ numReconnects = 0
  /\ trackedFaces = << >> /\ emotions = << >> /\ status = StatusEmpty
  /\ sockets = << >> /\ recorders = << >> /\ photoTasks = 0
  /\ lifecycle = "init" /\ stopped = FALSE
  /\ strictMode \in BOOLEAN
  /\ lastOk = NoMessage /\ lastNonEmpty = NoMessage
  /\ errorEvents = 0

\* The session: the default props (no onCalibrate), the production environment.
Init == Start /\ onCalibrate = FALSE /\ environment = "prod"

\* The message handling: with and without onCalibrate, in any environment.
InitUi == Start /\ onCalibrate \in BOOLEAN /\ environment \in Environments

\* useEffect body.  Under React strict mode the effect is run, cleaned up and
\* run again within the mounting commit, on the same refs.
Mount(limit) ==
  /\ lifecycle \in {"init", "strictUnmounted"}
  /\ Len(sockets) < limit
  /\ Commit(connect([Cur EXCEPT !.mountRef = TRUE]))
  /\ lifecycle' = IF lifecycle = "init" /\ strictMode THEN "strictMounted" ELSE "mounted"
  /\ Config
  /\ UNCHANGED << lastOk, lastNonEmpty, errorEvents >>

\* useEffect cleanup
Unmount ==
  /\ lifecycle \in {"strictMounted", "mounted"}
  /\ Commit(stopEverything(Cur))
  /\ lifecycle' = IF lifecycle = "strictMounted" THEN "strictUnmounted" ELSE "unmounted"
  /\ Config
  /\ UNCHANGED << lastOk, lastNonEmpty, errorEvents >>

SocketOpen(s) ==
  /\ Running
  /\ sockets[s].readyState = "CONNECTING"
  /\ Commit(socketOnOpen([Cur EXCEPT !.sockets[s].readyState = "OPEN"]))
  /\ Config
  /\ UNCHANGED << lifecycle, lastOk, lastNonEmpty, errorEvents >>

\* The server answers every frame it was sent with one message.
SocketMessage(s, i) ==
  /\ Running
  /\ sockets[s].readyState = "OPEN"
  /\ sockets[s].inflight > 0
  /\ Commit(socketOnMessage([Cur EXCEPT !.sockets[s].inflight = @ - 1], Messages[i]))
  /\ lastOk' = IF Messages[i].error = << >> THEN i ELSE lastOk
  /\ lastNonEmpty' = IF Len(Predictions(Messages[i])) > 0 THEN i ELSE lastNonEmpty
  /\ Config
  /\ UNCHANGED << lifecycle, errorEvents >>

\* The connection fails: the socket is CLOSED, its error event is fired and
\* its close event is due.
SocketError(s) ==
  /\ Running
  /\ \/ sockets[s].readyState \in {"CONNECTING", "OPEN"}
     \/ sockets[s].readyState = "CLOSING" /\ sockets[s].failed /\ ~sockets[s].closeDue
  /\ Commit(socketOnError([Cur EXCEPT !.sockets[s] =
                 [@ EXCEPT !.readyState = "CLOSED", !.failed = TRUE,
                           !.closeDue = TRUE, !.inflight = 0]]))
  /\ errorEvents' = errorEvents + 1
  /\ Config
  /\ UNCHANGED << lifecycle, lastOk, lastNonEmpty >>

\* The close event: after the error event of a failed connection, or when a
\* connection that was open has been closed by either side.
SocketClose(s, limit) ==
  /\ Running
  /\ \/ sockets[s].closeDue
     \/ sockets[s].readyState = "OPEN"
     \/ sockets[s].readyState = "CLOSING" /\ ~sockets[s].failed
  /\ Commit(socketOnClose([Cur EXCEPT !.sockets[s] =
                 [@ EXCEPT !.readyState = "CLOSED", !.closeDue = FALSE,
                           !.inflight = 0]]))
  /\ Len(sockets') <= limit
  /\ Config
  /\ UNCHANGED << lifecycle, lastOk, lastNonEmpty, errorEvents >>

\* onVideoReady up to its await of VideoRecorder.create(); photoRef holds the
\* canvas while the component is mounted.
OnVideoReady ==
  /\ Running
  /\ IF lifecycle = "mounted" /\ shouldCreateRecorder(Cur)
       THEN Commit([Cur EXCEPT !.recorderCreated = TRUE,
                               !.recorders = Append(@, "CREATING")])
       ELSE Commit(Cur)
  /\ Config
  /\ UNCHANGED << lifecycle, lastOk, lastNonEmpty, errorEvents >>

CreateDone(r) ==
  /\ Running
  /\ recorders[r] = "CREATING"
  /\ Commit(recorderReady(Cur, r))
  /\ Config
  /\ UNCHANGED << lifecycle, lastOk, lastNonEmpty, errorEvents >>

\* recorder.takePhoto() resolves: capturePhoto goes on into sendRequest
TakePhotoDone ==
  /\ Running
  /\ photoTasks > 0
  /\ Commit(sendRequest([Cur EXCEPT !.photoTasks = @ - 1]))
  /\ Config
  /\ UNCHANGED << lifecycle, lastOk, lastNonEmpty, errorEvents >>

\* blobToBase64() resolves in a sendRequest that holds socket s
EncodeDone(s) ==
  /\ Running
  /\ sockets[s].encoding > 0
  /\ Commit(sendEncoded(Cur, s))
  /\ Config
  /\ UNCHANGED << lifecycle, lastOk, lastNonEmpty, errorEvents >>

\* The session under up to MaxSockets connections; the server answers with
\* a prediction or with an error.
Next ==
  \/ Mount(MaxSockets)
  \/ Unmount
  \/ OnVideoReady
  \/ TakePhotoDone
  \/ \E r \in DOMAIN recorders : CreateDone(r)
  \/ \E s \in DOMAIN sockets : SocketOpen(s)
  \/ \E s \in DOMAIN sockets : \E i \in SessionMessages : SocketMessage(s, i)
  \/ \E s \in DOMAIN sockets : SocketError(s)
  \/ \E s \in DOMAIN sockets : SocketClose(s, MaxSockets)
  \/ \E s \in DOMAIN sockets : EncodeDone(s)

Spec == Init /\ [][Next]_vars

\* The message handling under up to MaxUiSockets connections and every message.
NextUi ==
  \/ Mount(MaxUiSockets)
  \/ Unmount
  \/ OnVideoReady
  \/ TakePhotoDone
  \/ \E r \in DOMAIN recorders : CreateDone(r)
  \/ \E s \in DOMAIN sockets : SocketOpen(s)
  \/ \E s \in DOMAIN sockets : \E i \in DOMAIN Messages : SocketMessage(s, i)
  \/ \E s \in DOMAIN sockets : SocketError(s)
  \/ \E s \in DOMAIN sockets : SocketClose(s, MaxUiSockets)
  \/ \E s \in DOMAIN sockets : EncodeDone(s)

SpecUi == InitUi /\ [][NextUi]_vars

\* The capture loop under up to MaxLoopSockets connections and every message;
\* a promise that is awaited (recorder.takePhoto(), blobToBase64()) resolves.
NextLoop ==
  \/ Mount(MaxLoopSockets)
  \/ Unmount
  \/ OnVideoReady
  \/ TakePhotoDone
  \/ \E r \in DOMAIN recorders : CreateDone(r)
  \/ \E s \in DOMAIN sockets : SocketOpen(s)
  \/ \E s \in DOMAIN sockets : \E i \in DOMAIN Messages : SocketMessage(s, i)
  \/ \E s \in DOMAIN sockets : SocketError(s)
  \/ \E s \in DOMAIN sockets : SocketClose(s, MaxLoopSockets)
  \/ \E s \in DOMAIN sockets : EncodeDone(s)

SpecLoop ==
  /\ Init /\ [][NextLoop]_vars
  /\ WF_vars(TakePhotoDone)
  /\ \A s \in 1..MaxLoopSockets : WF_vars(s \in DOMAIN sockets /\ EncodeDone(s))

\* The component when the camera never becomes ready (onVideoReady is never
\* called), under up to MaxRetrySockets connections.
NextTransport ==
  \/ Mount(MaxRetrySockets)
  \/ Unmount
  \/ \E s \in DOMAIN sockets : SocketOpen(s)
  \/ \E s \in DOMAIN sockets : SocketError(s)
  \/ \E s \in DOMAIN sockets : SocketClose(s, MaxRetrySockets)

SpecTransport == Init /\ [][NextTransport]_vars

\* ---- properties ----
LiveSockets == {s \in DOMAIN sockets : Live(sockets[s])}

RECURSIVE InFlightUpTo(_)
InFlightUpTo(n) == IF n = 0 THEN 0 ELSE sockets[n].inflight + InFlightUpTo(n - 1)

\* Frames sent whose reply has not been handled, on connections still open
RequestsInFlight == InFlightUpTo(Len(sockets))

\* No asynchronous step is pending: no create, takePhoto or blobToBase64 to
\* resolve, no closing handshake to finish and no close event due.
Settled ==
  /\ photoTasks = 0
  /\ \A r \in DOMAIN recorders : recorders[r] # "CREATING"
  /\ \A s \in DOMAIN sockets :
       /\ sockets[s].encoding = 0
       /\ sockets[s].readyState # "CLOSING"
       /\ ~sockets[s].closeDue

\* C1: at most one frame request is in flight at any time (no two sends
\* without a reply handled between them).
C1_OneRequestInFlight == RequestsInFlight <= 1

\* C2: at most one WebSocket created by the component is CONNECTING or OPEN.
C2_OneLiveSocket == Cardinality(LiveSockets) <= 1

\* C3: once the unmount cleanup has run and every pending asynchronous step
\* has completed, no live socket and no unstopped VideoRecorder remains.
C3_UnmountReleases ==
  lifecycle = "unmounted" /\ Settled =>
    /\ LiveSockets = {}
    /\ \A r \in DOMAIN recorders : recorders[r] # "RUNNING"

\* C4: after stopEverything has run, no handler creates a WebSocket (the only
\* step that may create one is the mount effect itself).
C4_NoReconnectAfterStop ==
  [][stopped /\ lifecycle' = lifecycle => Len(sockets') = Len(sockets)]_vars

\* The component is mounted: its set-state calls take effect
Displayed == lifecycle = "mounted"

\* ---- message handling ----
OkMessages == {i \in DOMAIN Messages : Messages[i].error = << >>}
ErrorMessages == DOMAIN Messages \ OkMessages
EmptyMessages == {i \in OkMessages : Len(Predictions(Messages[i])) = 0}

\* The emotions of the primary face of message i, as sent
PrimaryEmotions(i) ==
  IF i = NoMessage \/ Len(Predictions(Messages[i])) = 0 THEN << >>
  ELSE Predictions(Messages[i])[1].emotions

Count(list, e) == Cardinality({k \in DOMAIN list : list[k] = e})

SameEntries(a, b) ==
  /\ Len(a) = Len(b)
  /\ \A k \in DOMAIN a : Count(a, a[k]) = Count(b, a[k])

Descending(list) ==
  \A k \in 1..(Len(list) - 1) : list[k].score >= list[k + 1].score

\* The string without its first "."
WithoutFirstDot(str) ==
  IF \A k \in DOMAIN str : str[k] # "." THEN str
  ELSE LET first == CHOOSE k \in DOMAIN str :
                      str[k] = "." /\ \A j \in 1..(k - 1) : str[j] # "."
       IN SubSeq(str, 1, first - 1) \o SubSeq(str, first + 1, Len(str))

\* C5 as claimed: the emotion list is always exactly the emotions of the
\* primary face of the most recent message with a non-empty predictions list.
C5_EmotionsOfLastNonEmpty ==
  lastNonEmpty # NoMessage => emotions = PrimaryEmotions(lastNonEmpty)

\* C5 as amended: while the component is mounted the emotion list holds exactly the entries of the
\* primary face's emotions of the most recent message without an error field,
\* and none when that message had no predictions or no such message was
\* handled; in the message's order when onCalibrate is given, by descending
\* score otherwise.
C5_EmotionsOfLastOk ==
  Displayed =>
    /\ SameEntries(emotions, PrimaryEmotions(lastOk))
    /\ onCalibrate => emotions = PrimaryEmotions(lastOk)
    /\ ~onCalibrate => Descending(emotions)

C5_Witness ==
  /\ Displayed
  /\ lastNonEmpty # NoMessage /\ lastOk \in EmptyMessages
  /\ emotions = << >>

\* C6 as claimed: a message without error and without predictions empties the
\* emotion list and makes the status the message's warning string; no
\* teardown, mount flag and socket unchanged.
C6_EmptyShowsWarning ==
  [][\A s \in DOMAIN sockets : \A i \in EmptyMessages :
       SocketMessage(s, i) =>
         /\ emotions' = << >>
         /\ status' = Warning(Messages[i])
         /\ stopped' = stopped /\ mountRef' = mountRef
         /\ socketRef' = socketRef /\ sockets'[s].readyState = "OPEN"]_vars

\* C6 as amended: ... and makes the status the message's warning string
\* without its first "." (the empty string when there is no warning); on a
\* component that is no longer mounted the emotion list and the status stay
\* as they were.
C6_EmptyShowsWarningStripped ==
  [][\A s \in DOMAIN sockets : \A i \in EmptyMessages :
       SocketMessage(s, i) =>
         /\ emotions' = IF Displayed THEN << >> ELSE emotions
         /\ status' = IF Displayed THEN WithoutFirstDot(Warning(Messages[i]))
                       ELSE status
         /\ stopped' = stopped /\ mountRef' = mountRef
         /\ socketRef' = socketRef /\ sockets'[s].readyState = "OPEN"]_vars

C6_Witness ==
  /\ Displayed
  /\ lastOk \in EmptyMessages /\ Warning(Messages[lastOk]) = WarningTooSmall
  /\ status = << "Face too small", " Move closer", "." >>
  /\ emotions = << >> /\ mountRef /\ SocketIsOpen(Cur)

\* C7: a message with an error field sets the status to the error string (on
\* the mounted component; an unmounted one keeps its status) and
\* runs stopEverything (the socket in socketRef closed, the recorder stopped,
\* the mount flag cleared) without capturing a frame or touching the emotion
\* list and the tracked faces; from then on the mount flag stays cleared, so
\* no close event reconnects.
C7_ErrorMessageIsFatal ==
  [][/\ \A s \in DOMAIN sockets : \A i \in ErrorMessages :
          SocketMessage(s, i) =>
            /\ status' = IF Displayed THEN Messages[i].error ELSE status
            /\ stopped' /\ ~mountRef'
            /\ socketRef' = 0 /\ recorderRef' = 0
            /\ socketRef # 0 => ~Live(sockets'[socketRef])
            /\ recorderRef # 0 => recorders'[recorderRef] = "STOPPED"
            /\ photoTasks' = photoTasks
            /\ emotions' = emotions /\ trackedFaces' = trackedFaces
     /\ Running /\ ~mountRef =>
          ~mountRef' /\ Len(sockets') = Len(sockets)]_vars

C7_Witness ==
  /\ status = ErrorInvalidKey /\ lastNonEmpty \in ErrorMessages
  /\ ~mountRef /\ socketRef = 0 /\ recorderRef = 0
  /\ emotions # << >>
  /\ \E r \in DOMAIN recorders : recorders[r] = "STOPPED"
  /\ \A s \in DOMAIN sockets : sockets[s].readyState = "CLOSED" /\ ~sockets[s].closeDue

\* C8: numReconnects never exceeds maxReconnects.
C8_CounterWithinCeiling == numReconnects <= maxReconnects

C8_Witness == numReconnects = maxReconnects /\ errorEvents > maxReconnects

\* C9 as claimed: once numReconnects = maxReconnects, no handler calls
\* connect(), so no handler creates a socket.
C9_NoConnectAtCeiling ==
  [][numReconnects = maxReconnects /\ lifecycle' = lifecycle =>
       Len(sockets') = Len(sockets)]_vars

\* C9 as amended: once an error event has been handled with the counter at
\* the ceiling (the fourth error event), the mount flag is cleared for good
\* and no handler calls connect(): no step adds a socket, in particular not
\* the close event that follows the fourth error.
C9_NoConnectPastCeiling ==
  [][/\ errorEvents' > maxReconnects => ~mountRef'
     /\ errorEvents > maxReconnects => Len(sockets') = Len(sockets)]_vars

\* The fourth error event and the close event after it have been handled,
\* with room left for one more connection
C9_Witness ==
  /\ errorEvents > maxReconnects /\ ~mountRef
  /\ Len(sockets) = maxReconnects + 1 /\ Len(sockets) < MaxRetrySockets
  /\ \A s \in DOMAIN sockets : sockets[s].readyState = "CLOSED" /\ ~sockets[s].closeDue

\* C10: the first three error events only increment the counter; from the
\* fourth on the status of the mounted component is the failure status naming
\* the environment, the session is torn down and stays so.
C10_FourthErrorIsTerminal ==
  /\ errorEvents <= maxReconnects =>
       numReconnects = errorEvents /\ status # StatusFailed(environment)
  /\ errorEvents > maxReconnects =>
       /\ Displayed => status = StatusFailed(environment)
       /\ ~mountRef /\ socketRef = 0

\* ---- reconnection ----
\* C11: every close event delivered while the mount flag is set opens a new
\* connection, leaves the retry counter alone and does not fail the session.
C11_CloseAlwaysReconnects ==
  [][\A s \in DOMAIN sockets :
       SocketClose(s, MaxSockets) /\ mountRef =>
         /\ Len(sockets') = Len(sockets) + 1
         /\ numReconnects' = numReconnects
         /\ mountRef' /\ stopped' = stopped]_vars

\* C12: a connect() call made while socketRef holds an OPEN socket creates no
\* socket and leaves socketRef, the status, the retry counter and the mount
\* flag as they were; made at any other time it creates exactly one socket,
\* CONNECTING, and stores it in socketRef.  connect() is called by the mount
\* effect and by socketOnClose (after it has set the reconnecting status).
C12_ConnectIdempotentWhenOpen ==
  [][/\ \A s \in DOMAIN sockets :
          SocketClose(s, MaxSockets) /\ mountRef =>
            /\ numReconnects' = numReconnects /\ mountRef' = mountRef
            /\ \A o \in DOMAIN sockets : o # s => sockets'[o] = sockets[o]
            /\ IF socketRef # 0 /\ socketRef # s /\ sockets[socketRef].readyState = "OPEN"
                 THEN /\ Len(sockets') = Len(sockets)
                      /\ socketRef' = socketRef
                      /\ status' = StatusReconnecting
                 ELSE /\ Len(sockets') = Len(sockets) + 1
                      /\ socketRef' = Len(sockets')
                      /\ sockets'[socketRef'].readyState = "CONNECTING"
     /\ Mount(MaxSockets) =>
          /\ Len(sockets') = Len(sockets) + 1
          /\ socketRef' = Len(sockets')
          /\ sockets'[socketRef'].readyState = "CONNECTING"
          /\ \A o \in DOMAIN sockets : sockets'[o] = sockets[o]
          /\ numReconnects' = numReconnects]_vars

\* A close event has called connect() while the socket in socketRef was OPEN
C12_Witness ==
  /\ status = StatusReconnecting
  /\ socketRef # 0 /\ sockets[socketRef].readyState = "OPEN"
  /\ Len(sockets) = 2

\* ---- the capture loop ----
\* C13: a frame is sent only by a sendRequest that holds a socket which is
\* OPEN when its encoding is done, one frame per such call; a sendRequest
\* that finds socketRef empty, or its socket not OPEN once the frame is
\* encoded, ends without sending and leaves nothing behind to be sent later.
C13_DroppedFramesAreGone ==
  [][/\ \A s \in DOMAIN sockets :
          sockets'[s].inflight > sockets[s].inflight =>
            /\ sockets[s].readyState = "OPEN" /\ sockets'[s].readyState = "OPEN"
            /\ sockets[s].encoding > 0
            /\ sockets'[s].encoding = sockets[s].encoding - 1
            /\ sockets'[s].inflight = sockets[s].inflight + 1
     /\ \A s \in DOMAIN sockets' \ DOMAIN sockets :
          sockets'[s].inflight = 0 /\ sockets'[s].encoding = 0
     /\ TakePhotoDone /\ socketRef = 0 =>
          sockets' = sockets /\ photoTasks' = photoTasks - 1
     /\ \A s \in DOMAIN sockets :
          EncodeDone(s) /\ sockets[s].readyState # "OPEN" =>
            /\ sockets'[s].encoding = sockets[s].encoding - 1
            /\ sockets'[s].inflight = 0
            /\ sockets'[s].readyState # "OPEN"
            /\ \A o \in DOMAIN sockets : o # s => sockets'[o] = sockets[o]
            /\ photoTasks' = photoTasks]_vars

\* A sendRequest has found its socket still CONNECTING and closed it; no
\* frame is pending anywhere
C13_Witness ==
  /\ ~stopped
  /\ \E s \in DOMAIN sockets : sockets[s].readyState = "CLOSING" /\ sockets[s].failed
  /\ photoTasks = 0
  /\ \A s \in DOMAIN sockets : sockets[s].encoding = 0 /\ sockets[s].inflight = 0

\* C14: VideoRecorder.create() is invoked at most once, however often
\* onVideoReady is called and whether or not the first creation has resolved:
\* there is never a second recorder, and the one in recorderRef is the first.
C14_RecorderCreatedOnce ==
  /\ Len(recorders) <= 1
  /\ Len(recorders) = 1 => recorderCreated
  /\ recorderRef # 0 => recorderRef = 1 /\ recorders[1] = "RUNNING"

\* The creation is pending and onVideoReady can be called again
C14_Witness ==
  /\ lifecycle = "mounted" /\ ~stopped
  /\ recorderCreated /\ recorderRef = 0 /\ recorders = << "CREATING" >>
  /\ ENABLED OnVideoReady

\* ---- presentation ----
\* C15: rendering TopEmotions leaves the emotion list it is given unchanged in
\* content and order: the list held in state is the list the handler of the
\* most recent message without error stored, entry by entry.
C15_RenderKeepsEmotions == emotions = PrimaryEmotions(lastOk)

\* ---- the capture loop goes on ----
\* The loop runs on socket s: mounted, a recorder in recorderRef, s in
\* socketRef and OPEN
LoopOn(s) ==
  /\ s \in DOMAIN sockets
  /\ mountRef /\ recorderRef # 0
  /\ socketRef = s /\ sockets[s].readyState = "OPEN"

\* C16: while the view is mounted, the recorder exists and the socket in
\* socketRef is OPEN, every message without error (with or without
\* predictions) starts exactly one capture, a capture whose photo is taken
\* goes on to encode one frame for that socket, an encoded frame is sent on
\* it, and a capture or encoding that is pending while no frame awaits its
\* reply is eventually followed by a frame sent, unless the loop's conditions
\* end first.
C16_LoopDoesNotStall ==
  /\ [][/\ \A s \in DOMAIN sockets : \A i \in OkMessages :
             SocketMessage(s, i) /\ LoopOn(s) =>
               /\ photoTasks' = photoTasks + 1
               /\ sockets'[s].encoding = sockets[s].encoding
               /\ LoopOn(s)'
        /\ \A s \in DOMAIN sockets :
             TakePhotoDone /\ LoopOn(s) =>
               /\ photoTasks' = photoTasks - 1
               /\ sockets'[s].encoding = sockets[s].encoding + 1
        /\ \A s \in DOMAIN sockets :
             EncodeDone(s) /\ LoopOn(s) =>
               /\ sockets'[s].encoding = sockets[s].encoding - 1
               /\ sockets'[s].inflight = sockets[s].inflight + 1]_vars
  /\ \A s \in 1..MaxLoopSockets :
       (LoopOn(s) /\ (photoTasks > 0 \/ sockets[s].encoding > 0)
                  /\ sockets[s].inflight = 0)
         ~> (~LoopOn(s) \/ sockets[s].inflight > 0)

\* After a message without predictions the next frame has been sent
C16_Witness ==
  /\ lastOk \in EmptyMessages
  /\ socketRef # 0 /\ LoopOn(socketRef)
  /\ photoTasks = 0 /\ sockets[socketRef].encoding = 0
  /\ sockets[socketRef].inflight = 1

\* A recorder exists and the socket in socketRef is OPEN
BothReady ==
  /\ recorderRef # 0
  /\ socketRef # 0 /\ sockets[socketRef].readyState = "OPEN"

\* C17: the step that completes readiness (a recorder in recorderRef and the
\* socket in socketRef OPEN) starts exactly one capture, whichever of the two
\* events it is; an open event starts one capture when the recorder exists
\* and none otherwise, and the end of VideoRecorder.create() starts one
\* capture when the socket is OPEN and none otherwise.
C17_FirstCaptureOnce ==
  [][/\ ~BothReady /\ BothReady' => photoTasks' = photoTasks + 1
     /\ \A s \in DOMAIN sockets :
          SocketOpen(s) =>
            photoTasks' = photoTasks + (IF recorderRef # 0 THEN 1 ELSE 0)
     /\ \A r \in DOMAIN recorders :
          CreateDone(r) =>
            photoTasks' = photoTasks +
              (IF socketRef # 0 /\ sockets[socketRef].readyState = "OPEN"
                 THEN 1 ELSE 0)]_vars

\* Socket and recorder are both ready, and the one capture started since is
\* all that has happened
C17_Witness ==
  /\ BothReady /\ mountRef /\ ~strictMode
  /\ Len(sockets) = 1 /\ errorEvents = 0
  /\ photoTasks = 1
  /\ sockets[1].encoding = 0 /\ sockets[1].inflight = 0
  /\ lastOk = NoMessage /\ status = StatusConnectingWebcam

\* C18: after a message without error is handled by the mounted component
\* (set-state calls of an unmounted one have no effect) the tracked faces are the
\* bounding boxes of that message's predictions, one per prediction and in
\* their order (none when there are no predictions), whatever the list held
\* before.
C18_TrackedFacesReplaced ==
  [][\A s \in DOMAIN sockets : \A i \in OkMessages :
       SocketMessage(s, i) /\ Displayed =>
         /\ Len(trackedFaces') = Len(Predictions(Messages[i]))
         /\ \A k \in DOMAIN trackedFaces' :
              trackedFaces'[k] = [boundingBox |-> Predictions(Messages[i])[k].bbox]]_vars

\* Two faces were tracked; the message after had none, and none is tracked
C18_Witness ==
  /\ Displayed
  /\ lastNonEmpty = 2 /\ lastOk \in EmptyMessages
  /\ trackedFaces = << >>

\* ---- the retry counter over the component's lifetime ----
\* C19: no step lowers the retry counter (no open event, message, close event
\* or reconnect resets it), so of all the socket error events of the
\* component's lifetime the first three each add one to it and every later
\* one, from the fourth on, enters the failed state (teardown, and the failure
\* status on the mounted component), whatever was opened and streamed in
\* between.
C19_CounterNeverReset ==
  [][/\ numReconnects' >= numReconnects
     /\ \A s \in DOMAIN sockets :
          SocketError(s) =>
            IF errorEvents < maxReconnects
              THEN /\ numReconnects' = errorEvents + 1
                   /\ stopped' = stopped /\ mountRef' = mountRef
                   /\ status' = status
              ELSE /\ numReconnects' = maxReconnects
                   /\ stopped' /\ ~mountRef'
                   /\ status' = IF Displayed THEN StatusFailed(environment)
                                 ELSE status]_vars

\* The fourth error event has failed a session in which a connection had
\* opened and a reply had been handled
C19_Witness ==
  /\ errorEvents = maxReconnects + 1 /\ numReconnects = maxReconnects
  /\ lastOk # NoMessage /\ ~strictMode
  /\ status = StatusFailed(environment) /\ ~mountRef

\* ---- teardown and suspended captures ----
\* C20: once stopEverything has run (the mount flag is cleared) no frame is
\* sent: no step adds a frame to those sent on any socket.
C20_NoSendAfterStop ==
  [][~mountRef =>
       \A s \in DOMAIN sockets : sockets'[s].inflight <= sockets[s].inflight]_vars

====
